---------------------------- MODULE Spec2Model ----------------------------
(***************************************************************************)
(* A model of scales/__init__.py: scale_from_rates, ToneBasis and Scale.   *)
(*                                                                         *)
(* Numbers.  The program computes with frequencies x > 0 and with cents.   *)
(* Every number it can build from rational inputs with *, /, 2**(c/1200)   *)
(* and log2 lies in the group of the reals  q * 2^e  with q a positive     *)
(* rational and e a rational in [0,1); that form is unique, so the model   *)
(* keeps a frequency as the record [q |-> q, e |-> e] and computes with it *)
(* exactly.  A cents value 1200*log2(x) is kept as [c |-> c, odd |-> r],   *)
(* meaning c + 1200*log2(r) with c rational and r a ratio of odd numbers.  *)
(* Exact arithmetic stands for numpy's float64 arithmetic "up to           *)
(* floating-point tolerance"; what numpy does beyond rounding (the dtype   *)
(* of an array, the truncation of a value stored into an int64 array,      *)
(* negative indices, copying) is modelled as numpy does it.                *)
(***************************************************************************)
EXTENDS Integers, Sequences, FiniteSets, TLC

VARIABLES
    arrays,   \* the ndarray storage cells: arrays[id] = [data, dtype]
    scales,   \* the Scale objects: scales[s] = [notes |-> id of self.notes]
    copies,   \* the <<source, result>> pairs of the copy() calls made
    edits,    \* the number of set_note calls made
    basis,    \* the ToneBasis object under test, <<>> before it is constructed
    last      \* the latest call: its arguments, the state before it, its outcome

vars == <<arrays, scales, copies, edits, basis, last>>

---------------------------------------------------------------------------
(* Rationals: [num, den] in lowest terms, den > 0.                         *)

RECURSIVE GCD(_, _)
GCD(a, b) == IF b = 0 THEN a ELSE GCD(b, a % b)

Abs(a) == IF a < 0 THEN -a ELSE a

RatNorm(n, d) ==
    LET g == GCD(Abs(n), Abs(d))
        s == IF d < 0 THEN -1 ELSE 1
    IN  [num |-> s * (n \div g), den |-> s * (d \div g)]

Rat(n) == [num |-> n, den |-> 1]

RatAdd(a, b) == RatNorm(a.num * b.den + b.num * a.den, a.den * b.den)

RatSub(a, b) == RatNorm(a.num * b.den - b.num * a.den, a.den * b.den)

RatMul(a, b) == RatNorm(a.num * b.num, a.den * b.den)

RatDiv(a, b) == RatNorm(a.num * b.den, a.den * b.num)

RatFloor(a) == a.num \div a.den

RatLess(a, b) == a.num * b.den < b.num * a.den

---------------------------------------------------------------------------
(* Frequencies and ratios: [q, e] stands for q * 2^e, 0 <= e < 1.          *)

CentsPerOctave == 1200

Real(q) == [q |-> q, e |-> Rat(0)]

RealMul(x, y) ==
    LET e == RatAdd(x.e, y.e)
        q == RatMul(x.q, y.q)
    IN  IF RatLess(e, Rat(1))
        THEN [q |-> q, e |-> e]
        ELSE [q |-> RatMul(q, Rat(2)), e |-> RatSub(e, Rat(1))]

RealDiv(x, y) ==
    LET e == RatSub(x.e, y.e)
        q == RatDiv(x.q, y.q)
    IN  IF RatLess(e, Rat(0))
        THEN [q |-> RatDiv(q, Rat(2)), e |-> RatAdd(e, Rat(1))]
        ELSE [q |-> q, e |-> e]

\* 2 ** (cents/1200), cents a rational
Pow2Cents(cents) ==
    LET o == RatDiv(cents, Rat(CentsPerOctave))
        k == RatFloor(o)
    IN  [q |-> IF k >= 0 THEN Rat(2 ^ k) ELSE RatNorm(1, 2 ^ (-k)),
         e |-> RatSub(o, Rat(k))]

RECURSIVE V2(_)
\* the exponent of 2 in the positive integer n
V2(n) == IF n % 2 = 0 THEN 1 + V2(n \div 2) ELSE 0

\* 1200 * np.log2(x)
Log2Cents(x) ==
    LET a == V2(x.q.num)
        b == V2(x.q.den)
    IN  [c   |-> RatMul(Rat(CentsPerOctave), RatAdd(x.e, Rat(a - b))),
         odd |-> RatNorm(x.q.num \div (2 ^ a), x.q.den \div (2 ^ b))]

\* a cents value that is a plain rational
CentsVal(c) == [c |-> c, odd |-> Rat(1)]

\* the float64 -> int64 cast of an item assignment: truncation (here of x > 0)
Trunc(x) ==
    LET n  == x.q.num
        d  == x.q.den
        a  == x.e.num
        b  == x.e.den
        lo == n \div d
    IN  IF a = 0
        THEN Real(Rat(lo))
        ELSE Real(Rat(CHOOSE m \in lo .. (2 * lo + 1) :
                        /\ (m ^ b) * (d ^ b) <= (n ^ b) * (2 ^ a)
                        /\ ((m + 1) ^ b) * (d ^ b) > (n ^ b) * (2 ^ a)))

---------------------------------------------------------------------------
(* Python values and numpy arrays.                                         *)

None == [some |-> FALSE]

Some(v) == [some |-> TRUE, val |-> v]

PyInt(n) == [v |-> Real(Rat(n)), ty |-> "int"]

PyFloat(r) == [v |-> Real(r), ty |-> "float"]

\* the ndarray numpy makes of a Python list: int64 when the list is not
\* empty and holds only ints, float64 otherwise (np.array([]) is float64)
ArrayOf(items) ==
    [data  |-> [i \in 1 .. Len(items) |-> items[i].v],
     dtype |-> IF Len(items) > 0 /\ \A i \in 1 .. Len(items) : items[i].ty = "int"
               THEN "int64" ELSE "float64"]

\* a variant of cumprod: origin times each item, nothing carried along
cumprod_no_carry(xs) ==
    [i \in 1 .. Len(xs) |-> IF i = 1 THEN xs[1] ELSE RealMul(xs[1], xs[i])]

RECURSIVE cumprod(_)
\* np.cumprod: the running product, left to right
cumprod(xs) ==
    IF Len(xs) <= 1 THEN xs
    ELSE LET p == cumprod(SubSeq(xs, 1, Len(xs) - 1))
         IN  Append(p, RealMul(p[Len(p)], xs[Len(xs)]))

\* np.concatenate([[origin], rates]); origin a Python number, rates an array
concatenate(origin, rates) ==
    [data  |-> <<origin.v>> \o rates.data,
     dtype |-> IF origin.ty = "int" /\ rates.dtype = "int64"
               THEN "int64" ELSE "float64"]

scale_from_rates(origin, rates) ==
    LET c == concatenate(origin, rates)
    IN  [data |-> cumprod(c.data), dtype |-> c.dtype]

---------------------------------------------------------------------------
(* ToneBasis: an object [intervals |-> the cents values, rationals].       *)

ToneBasis_init(intervals) == [intervals |-> intervals]

\* a variant of equidistant: one interval too many
equidistant_extra(n) ==
    IF n = 0
    THEN [err |-> "ZeroDivisionError", obj |-> ToneBasis_init(<<>>)]
    ELSE [err |-> "none",
          obj |-> ToneBasis_init([i \in 1 .. (n + 1) |-> RatNorm(CentsPerOctave, n)])]

equidistant(n) ==
    IF n = 0
    THEN [err |-> "ZeroDivisionError", obj |-> ToneBasis_init(<<>>)]
    ELSE [err |-> "none",
          obj |-> ToneBasis_init([i \in 1 .. n |-> RatNorm(CentsPerOctave, n)])]

ToneBasis_rates(self) ==
    [data  |-> [i \in 1 .. Len(self.intervals) |-> Pow2Cents(self.intervals[i])],
     dtype |-> "float64"]

ToneBasis_scale(self, origin) == scale_from_rates(origin, ToneBasis_rates(self))

---------------------------------------------------------------------------
(* Scale: an object whose notes field refers to an ndarray.                *)

\* a variant of Scale.__init__: notes given, rejected only when origin and
\* rates are both given too
Scale_init_and(origin, rates, notes) ==
    IF ~notes.some
    THEN IF ~origin.some \/ ~rates.some
         THEN [err |-> "ValueError", notes |-> ArrayOf(<<>>)]
         ELSE [err |-> "none", notes |-> scale_from_rates(origin.val, rates.val)]
    ELSE IF origin.some /\ rates.some
         THEN [err |-> "ValueError", notes |-> ArrayOf(<<>>)]
         ELSE [err |-> "none", notes |-> notes.val]

\* Scale.__init__: the error raised, or the array bound to self.notes
Scale_init(origin, rates, notes) ==
    IF ~notes.some
    THEN IF ~origin.some \/ ~rates.some
         THEN [err |-> "ValueError", notes |-> ArrayOf(<<>>)]
         ELSE [err |-> "none", notes |-> scale_from_rates(origin.val, rates.val)]
    ELSE IF origin.some \/ rates.some
         THEN [err |-> "ValueError", notes |-> ArrayOf(<<>>)]
         ELSE [err |-> "none", notes |-> notes.val]

to_scale(self, origin) == Scale_init(Some(origin), Some(ToneBasis_rates(self)), None)

\* a variant of np.array(a): the same cell (as np.asarray gives)
np_array_view(heap, id) == [heap |-> heap, id |-> id]

\* np.array(a) of the ndarray in cell id: a new cell holding a copy of it
np_array(heap, id) == [heap |-> Append(heap, heap[id]), id |-> Len(heap) + 1]

\* Scale.copy: Scale(notes=self.notes)
Scale_copy(heap, id) ==
    LET r == Scale_init(None, None, Some(heap[id]))
    IN  IF r.err = "none"
        THEN [err |-> "none"] @@ np_array(heap, id)
        ELSE [err |-> r.err, heap |-> heap, id |-> id]

\* a variant of Scale.rates: the ratios inverted
Scale_rates_inverted(notes) ==
    [i \in 1 .. (Len(notes.data) - 1) |-> RealDiv(notes.data[i], notes.data[i + 1])]

Scale_rates(notes) ==
    [i \in 1 .. (Len(notes.data) - 1) |-> RealDiv(notes.data[i + 1], notes.data[i])]

Scale_intervals(notes) ==
    LET r == Scale_rates(notes)
    IN  [i \in 1 .. Len(r) |-> Log2Cents(r[i])]

\* numpy's integer indexing of an array of n items: i in -n .. n-1
ValidIndex(i, n) == -n <= i /\ i < n

\* the position (from 1) of index i in an array of n items
Position(i, n) == IF i >= 0 THEN i + 1 ELSE i + n + 1

\* a variant of the item assignment: a slice assignment, notes[index:] = value
SetItem_slice(notes, index, value) ==
    [notes EXCEPT !.data =
        [j \in 1 .. Len(notes.data) |->
            IF j >= Position(index, Len(notes.data))
            THEN IF notes.dtype = "int64" THEN Trunc(value) ELSE value
            ELSE notes.data[j]]]

\* notes[index] = value: a value stored into an int64 array is truncated
SetItem(notes, index, value) ==
    [notes EXCEPT !.data[Position(index, Len(notes.data))] =
        IF notes.dtype = "int64" THEN Trunc(value) ELSE value]

\* a variant of set_note: an unrecognized reference is taken as 'current'
set_note_else_current(notes, index, cents, reference) ==
    LET n    == Len(notes.data)
        rate == Pow2Cents(Rat(cents))
        at(i) == notes.data[Position(i, n)]
        fail == [err |-> "IndexError", notes |-> notes]
    IN  IF reference = "previous"
        THEN IF ValidIndex(index - 1, n) /\ ValidIndex(index, n)
             THEN [err |-> "none", notes |-> SetItem(notes, index, RealMul(at(index - 1), rate))]
             ELSE fail
        ELSE IF reference = "origin"
        THEN IF ValidIndex(0, n) /\ ValidIndex(index, n)
             THEN [err |-> "none", notes |-> SetItem(notes, index, RealMul(at(0), rate))]
             ELSE fail
        ELSE IF ValidIndex(index, n)
             THEN [err |-> "none", notes |-> SetItem(notes, index, RealMul(at(index), rate))]
             ELSE fail

\* Scale.set_note on the array notes: the error raised and the array after
set_note(notes, index, cents, reference) ==
    LET n    == Len(notes.data)
        rate == Pow2Cents(Rat(cents))
        at(i) == notes.data[Position(i, n)]
        fail == [err |-> "IndexError", notes |-> notes]
    IN  IF reference = "current"
        THEN IF ValidIndex(index, n)
             THEN [err |-> "none", notes |-> SetItem(notes, index, RealMul(at(index), rate))]
             ELSE fail
        ELSE IF reference = "previous"
        THEN IF ValidIndex(index - 1, n) /\ ValidIndex(index, n)
             THEN [err |-> "none", notes |-> SetItem(notes, index, RealMul(at(index - 1), rate))]
             ELSE fail
        ELSE IF reference = "origin"
        THEN IF ValidIndex(0, n) /\ ValidIndex(index, n)
             THEN [err |-> "none", notes |-> SetItem(notes, index, RealMul(at(0), rate))]
             ELSE fail
        ELSE [err |-> "none", notes |-> notes]

---------------------------------------------------------------------------
(* Bounds and the inputs the calls are made with.                          *)

MaxEdits == 2       \* set_note calls on the scale under edit (Spec)
MaxScales == 2      \* Scale objects alive (SpecCopy)
MaxCopyEdits == 2   \* set_note calls (SpecCopy)
MaxLen == 3         \* intervals of an explicit ToneBasis (SpecBasis)
MaxN == 7           \* equidistant(n), n <= MaxN (SpecBasis)

OriginsIn == {PyInt(100), PyFloat(Rat(440))}

\* Python lists of ratios: empty, ints only, floats
RatesIn == {<<>>, <<PyInt(2), PyInt(2)>>, <<PyFloat(RatNorm(3, 2)), PyInt(2)>>}

\* Python lists of notes: ints only (an int64 array), floats
NotesIn == {<<PyInt(440)>>,
            <<PyInt(100), PyInt(200), PyInt(400)>>,
            <<PyFloat(Rat(100)), PyFloat(Rat(200)), PyFloat(Rat(400))>>}

Opt(S) == {None} \cup {Some(v) : v \in S}

ArraysOf(S) == {ArrayOf(items) : items \in S}

CentsIn == {-1200, 0, 600}

ReferencesIn == {"current", "previous", "origin", "next"}

\* cents values of a ToneBasis: either sign, whole and fractional
IntervalsIn == {Rat(-100), Rat(700), RatNorm(401, 2)}

SeqsUpTo(S, n) == UNION {[1 .. k -> S] : k \in 0 .. n}

---------------------------------------------------------------------------
(* The calls.                                                              *)

Init ==
    /\ arrays = <<>>
    /\ scales = <<>>
    /\ copies = {}
    /\ edits = 0
    /\ basis = <<>>
    /\ last = [op |-> "init"]

\* Scale(origin, rates, notes), each argument None or given
Construct(origin, rates, notes) ==
    LET r == Scale_init(origin, rates, notes)
    IN  /\ IF r.err = "none"
           THEN /\ arrays' = Append(arrays, r.notes)
                /\ scales' = Append(scales, [notes |-> Len(arrays) + 1])
           ELSE UNCHANGED <<arrays, scales>>
        /\ last' = [op |-> "Scale", origin |-> origin, rates |-> rates,
                    notes |-> notes, err |-> r.err, scales0 |-> Len(scales)]
        /\ UNCHANGED <<copies, edits, basis>>

\* scales[s].copy()
Copy(s) ==
    LET r == Scale_copy(arrays, scales[s].notes)
    IN  /\ arrays' = r.heap
        /\ IF r.err = "none"
           THEN /\ scales' = Append(scales, [notes |-> r.id])
                /\ copies' = copies \cup {<<s, Len(scales) + 1>>}
           ELSE UNCHANGED <<scales, copies>>
        /\ last' = [op |-> "copy", self |-> s, result |-> Len(scales) + 1,
                    err |-> r.err, heap0 |-> arrays]
        /\ UNCHANGED <<edits, basis>>

\* scales[s].set_note(index, cents, reference)
SetNote(s, index, cents, reference) ==
    LET id == scales[s].notes
        r  == set_note(arrays[id], index, cents, reference)
    IN  /\ arrays' = [arrays EXCEPT ![id] = r.notes]
        /\ edits' = edits + 1
        /\ last' = [op |-> "set_note", self |-> s, index |-> index, cents |-> cents,
                    reference |-> reference, err |-> r.err, heap0 |-> arrays]
        /\ UNCHANGED <<scales, copies, basis>>

\* ToneBasis(intervals)
NewToneBasis(intervals) ==
    /\ basis' = <<ToneBasis_init(intervals)>>
    /\ last' = [op |-> "ToneBasis", intervals |-> intervals]
    /\ UNCHANGED <<arrays, scales, copies, edits>>

\* ToneBasis.equidistant(n)
Equidistant(n) ==
    LET r == equidistant(n)
    IN  /\ basis' = IF r.err = "none" THEN <<r.obj>> ELSE basis
        /\ last' = [op |-> "equidistant", n |-> n, err |-> r.err]
        /\ UNCHANGED <<arrays, scales, copies, edits>>

\* basis.rates()
BasisRates ==
    /\ basis # <<>>
    /\ last' = [op |-> "rates", result |-> ToneBasis_rates(basis[1])]
    /\ UNCHANGED <<arrays, scales, copies, edits, basis>>

\* basis.scale(origin)
BasisScale(origin) ==
    /\ basis # <<>>
    /\ last' = [op |-> "scale", origin |-> origin,
                result |-> ToneBasis_scale(basis[1], origin)]
    /\ UNCHANGED <<arrays, scales, copies, edits, basis>>

\* basis.to_scale(origin).intervals()
ToScaleIntervals(origin) ==
    /\ basis # <<>>
    /\ LET r == to_scale(basis[1], origin)
       IN  last' = [op |-> "to_scale", origin |-> origin, err |-> r.err,
                    notes |-> r.notes, intervals |-> Scale_intervals(r.notes)]
    /\ UNCHANGED <<arrays, scales, copies, edits, basis>>

\* scale_from_rates(origin, rates)
ScaleFromRates(origin, rates) ==
    /\ last' = [op |-> "scale_from_rates", origin |-> origin, rates |-> rates,
                result |-> scale_from_rates(origin, rates)]
    /\ UNCHANGED <<arrays, scales, copies, edits, basis>>

Indices(s) == (-Len(arrays[scales[s].notes].data)) .. Len(arrays[scales[s].notes].data)

\* one Scale is constructed (any combination of arguments) and then edited
Next ==
    \/ /\ scales = <<>>
       /\ \E origin \in Opt(OriginsIn), rates \in Opt(ArraysOf(RatesIn)),
             notes \in Opt(ArraysOf(NotesIn)) : Construct(origin, rates, notes)
    \/ /\ edits < MaxEdits
       /\ \E s \in 1 .. Len(scales) : \E index \in Indices(s) :
             \E cents \in CentsIn, reference \in ReferencesIn :
                SetNote(s, index, cents, reference)

Spec == Init /\ [][Next]_vars

\* a Scale is constructed, copied and the copies and the source are edited
NextCopy ==
    \/ /\ scales = <<>>
       /\ \E notes \in ArraysOf(NotesIn) : Construct(None, None, Some(notes))
    \/ /\ Len(scales) < MaxScales
       /\ \E s \in 1 .. Len(scales) : Copy(s)
    \/ /\ edits < MaxCopyEdits
       /\ \E s \in 1 .. Len(scales) : \E index \in Indices(s) \cap (0 .. 2) :
             \E reference \in {"current", "previous"} : SetNote(s, index, 600, reference)

SpecCopy == Init /\ [][NextCopy]_vars

\* the pure part: ToneBasis, scale_from_rates and Scale(origin, rates)
NextBasis ==
    \/ \E intervals \in SeqsUpTo(IntervalsIn, MaxLen) : NewToneBasis(intervals)
    \/ \E n \in 0 .. MaxN : Equidistant(n)
    \/ BasisRates
    \/ \E origin \in OriginsIn : BasisScale(origin)
    \/ \E origin \in OriginsIn : ToScaleIntervals(origin)
    \/ \E origin \in OriginsIn, rates \in ArraysOf(RatesIn) : ScaleFromRates(origin, rates)
    \/ /\ scales = <<>>
       /\ \E origin \in OriginsIn, rates \in ArraysOf(RatesIn) :
             Construct(Some(origin), Some(rates), None)

SpecBasis == Init /\ [][NextBasis]_vars

---------------------------------------------------------------------------
(* The claims.                                                             *)

Known == {"current", "previous", "origin"}

\* the array of the edited Scale before and after the latest set_note
Before == last.heap0[scales[last.self].notes]

After == arrays[scales[last.self].notes]

\* the notes of Scale s in the heap h
NotesOf(h, s) == h[scales[s].notes]

\* l + c cents, l a cents value and c a whole number of cents
AddCents(l, c) == [c |-> RatAdd(l.c, Rat(c)), odd |-> l.odd]

RECURSIVE SumCents(_)
SumCents(ls) ==
    IF ls = <<>> THEN CentsVal(Rat(0))
    ELSE LET h == ls[1]
             t == SumCents(Tail(ls))
         IN  [c |-> RatAdd(h.c, t.c), odd |-> RatMul(h.odd, t.odd)]

RECURSIVE SumRat(_)
SumRat(xs) == IF xs = <<>> THEN Rat(0) ELSE RatAdd(xs[1], SumRat(Tail(xs)))

RECURSIVE Product(_)
Product(xs) == IF xs = <<>> THEN Real(Rat(1)) ELSE RealMul(xs[1], Product(Tail(xs)))

\* result is the running product of origin and rates, in the given order
RunningProduct(origin, rates, result) ==
    /\ Len(result) = Len(rates) + 1
    /\ result[1] = origin.v
    /\ \A i \in 1 .. Len(rates) : result[i + 1] = RealMul(result[i], rates[i])

\* C1: set_note(0, cents, 'previous') fails with an out-of-range error and
\* leaves every note unchanged.
C1_PreviousAtZeroFails ==
    (last.op = "set_note" /\ last.reference = "previous" /\ last.index = 0)
        => (last.err = "IndexError" /\ arrays = last.heap0)

\* C2: constructing a Scale succeeds exactly when one mode is used (origin
\* and rates without notes, or notes without origin and rates); every other
\* combination is rejected with an invalid-argument error and no object.
C2_ExactlyOneMode ==
    last.op = "Scale" =>
        LET o == last.origin.some
            r == last.rates.some
            n == last.notes.some
        IN  /\ last.err = "none" <=> ((~n /\ o /\ r) \/ (n /\ ~o /\ ~r))
            /\ last.err = "none" => Len(scales) = last.scales0 + 1
            /\ last.err # "none" =>
                  (last.err = "ValueError" /\ Len(scales) = last.scales0)

C2_Witness ==
    /\ last.op = "Scale"
    /\ last.notes.some /\ last.origin.some /\ ~last.rates.some
    /\ last.err = "ValueError"

\* C3: copy() returns a Scale whose notes equal the source's at the call and
\* share no storage with it: a set_note on the copy leaves the source's notes
\* unchanged and a set_note on the source leaves the copy's notes unchanged.
C3_CopyIndependent ==
    /\ (last.op = "copy" /\ last.err = "none") =>
          /\ scales[last.result].notes # scales[last.self].notes
          /\ NotesOf(arrays, last.result) = NotesOf(last.heap0, last.self)
          /\ NotesOf(arrays, last.self) = NotesOf(last.heap0, last.self)
    /\ last.op = "set_note" =>
          \A p \in copies :
             /\ p[2] = last.self => NotesOf(arrays, p[1]) = NotesOf(last.heap0, p[1])
             /\ p[1] = last.self => NotesOf(arrays, p[2]) = NotesOf(last.heap0, p[2])

C3_Witness ==
    /\ last.op = "set_note" /\ last.err = "none"
    /\ After # Before
    /\ \E p \in copies : p[2] = last.self
    /\ edits = 2

\* C4: for every Scale, however constructed, and every valid index,
\* set_note sets notes[index] to old notes[index] * 2^(cents/1200) for
\* 'current', old notes[index-1] * 2^(cents/1200) for 'previous' (index >= 1)
\* and old notes[0] * 2^(cents/1200) for 'origin'.
C4_SetNoteSemantics ==
    (/\ last.op = "set_note" /\ last.reference \in Known
     /\ 0 <= last.index /\ last.index < Len(Before.data)
     /\ last.reference = "previous" => last.index >= 1)
        => LET i    == last.index + 1
               rate == Pow2Cents(Rat(last.cents))
               from == IF last.reference = "current" THEN i
                       ELSE IF last.reference = "previous" THEN i - 1 ELSE 1
           IN  /\ last.err = "none"
               /\ After.data[i] = RealMul(Before.data[from], rate)

\* C5: a set_note call with a recognized reference changes no note other
\* than notes[index] and keeps the number of notes.
C5_OnlyIndexChanges ==
    (last.op = "set_note" /\ last.reference \in Known)
        => LET n == Len(Before.data)
           IN  /\ Len(After.data) = n
               /\ \A j \in 1 .. n :
                     (ValidIndex(last.index, n) /\ j = Position(last.index, n))
                       \/ After.data[j] = Before.data[j]

C5_Witness ==
    /\ last.op = "set_note" /\ last.reference \in Known /\ last.err = "none"
    /\ edits = 2
    /\ Len(Before.data) = 3
    /\ After.data[2] # Before.data[2]

\* C6: scale_from_rates(f, r) has n+1 elements, result[0] = f and
\* result[i] = result[i-1] * r[i-1]; Scale(origin, rates).notes and
\* ToneBasis.scale(origin) are this same sequence.
C6_CumulativeProduct ==
    /\ last.op = "scale_from_rates" =>
          RunningProduct(last.origin, last.rates.data, last.result.data)
    /\ (last.op = "Scale" /\ last.err = "none" /\ ~last.notes.some) =>
          RunningProduct(last.origin.val, last.rates.val.data,
                         arrays[scales[Len(scales)].notes].data)
    /\ last.op = "scale" =>
          RunningProduct(last.origin, ToneBasis_rates(basis[1]).data, last.result.data)

C6_Witness ==
    /\ last.op = "scale_from_rates"
    /\ Len(last.rates.data) = 2
    /\ last.result.data[3] # last.result.data[2]

\* C7: round trip: B.to_scale(f).intervals() has the length of B.intervals
\* and equals it element by element, for every origin f.
C7_RoundTrip ==
    last.op = "to_scale" =>
        /\ last.err = "none"
        /\ Len(last.intervals) = Len(basis[1].intervals)
        /\ \A i \in 1 .. Len(last.intervals) :
              last.intervals[i] = CentsVal(basis[1].intervals[i])

C7_Witness ==
    /\ last.op = "to_scale"
    /\ Len(last.intervals) = 3
    /\ \E i, j \in 1 .. 3 : /\ basis[1].intervals[i].num < 0
                            /\ basis[1].intervals[j].den > 1

\* C8: set_note with a reference other than 'current', 'previous' or
\* 'origin' leaves every note as it was.
C8_UnknownReferenceNoChange ==
    (last.op = "set_note" /\ last.reference \notin Known) => arrays = last.heap0

C8_Witness ==
    /\ last.op = "set_note" /\ last.reference \notin Known
    /\ ValidIndex(last.index, Len(Before.data))
    /\ last.cents # 0

\* C9: for n >= 1, equidistant(n) holds n intervals of 1200/n cents each,
\* summing to 1200; its rates() are n values 2^(1/n) whose product is 2, and
\* the last note of equidistant(n).to_scale(f) is 2*f.
C9_EqualDivision ==
    (last.op = "equidistant" /\ last.n >= 1) =>
        LET b == basis[1]
            r == ToneBasis_rates(b).data
            n == last.n
        IN  /\ last.err = "none"
            /\ Len(b.intervals) = n
            /\ \A i \in 1 .. n : b.intervals[i] = RatNorm(CentsPerOctave, n)
            /\ SumRat(b.intervals) = Rat(CentsPerOctave)
            /\ Len(r) = n
            /\ \A i \in 1 .. n :
                  r[i] = IF n = 1 THEN Real(Rat(2))
                         ELSE [q |-> Rat(1), e |-> RatNorm(1, n)]
            /\ Product(r) = Real(Rat(2))
            /\ \A f \in OriginsIn :
                  LET notes == to_scale(b, f).notes.data
                  IN  notes[Len(notes)] = RealMul(f.v, Real(Rat(2)))

C9_Witness ==
    /\ last.op = "equidistant" /\ last.n = 7
    /\ Len(basis[1].intervals) = 7

\* C10: a set_note(i, c, 'current') at an interior index 0 < i < n makes
\* intervals()[i-1] larger by c and intervals()[i] smaller by c, leaves every
\* other interval unchanged and so leaves the sum of the intervals unchanged.
C10_CurrentEditMovesPitch ==
    (/\ last.op = "set_note" /\ last.reference = "current"
     /\ 0 < last.index /\ last.index < Len(Before.data) - 1)
        => LET old == Scale_intervals(Before)
               new == Scale_intervals(After)
               i   == last.index
           IN  /\ Len(new) = Len(old)
               /\ new[i] = AddCents(old[i], last.cents)
               /\ new[i + 1] = AddCents(old[i + 1], -last.cents)
               /\ \A j \in 1 .. Len(old) : j \notin {i, i + 1} => new[j] = old[j]
               /\ SumCents(new) = SumCents(old)

===========================================================================
